---- MODULE Spec2Model ----
(***************************************************************************)
(* Model of the CPA training plan (cpa/_task.py, CPATrainingPlan) and of   *)
(* the CPA module (cpa/_module.py, CPAModule).                             *)
(*                                                                         *)
(* Spec       : the training plan driven by a trainer (training steps,     *)
(*              validation steps, epoch ends, epoch advance).              *)
(* SpecModule : the module: construction, mixup_data, inference.           *)
(*                                                                         *)
(* Values that come out of the neural layers and the likelihoods (losses,  *)
(* metric scalars) are opaque to this code; they are abstracted to the     *)
(* two-point domain {"0.0", "val"}: the literal 0.0 the code writes, and   *)
(* any tensor value.  Latent vectors are integer vectors and a mixup       *)
(* weight is a fraction lam/LambdaDen, so that blends are exact.           *)
(*                                                                         *)
(* A handler call that raises leaves the object as it was at the raise;    *)
(* last_call and module_call record how the last call ended.  Python       *)
(* assertions are enabled (the interpreter default).                       *)
(*                                                                         *)
(* training_step is modelled against the module interface it calls         *)
(* (forward, loss, adversarial_loss), each taken to return a value the     *)
(* step can back-propagate; CPAModule in _module.py returns a pair from    *)
(* loss and defines no adversarial_loss.  inference is modelled for        *)
(* n_samples = 1.                                                          *)
(***************************************************************************)
EXTENDS Integers, Sequences, FiniteSets, TLC

\* ------------------------------------------------------------------ bounds
MaxAdversarySteps == 3
MaxWarmup == 2
MaxStepSize == 2
MaxBatches == 3
MaxEpoch == 2
MaxCells == 2       \* cells in a batch
LambdaDen == 2      \* mixup weights are the fractions 0/LambdaDen .. LambdaDen/LambdaDen

\* ------------------------------------------------------------- plan state
VARIABLES
    n_epochs_warmup,   \* self.n_epochs_warmup
    adversary_steps,   \* self.adversary_steps
    step_size_lr,      \* self.step_size_lr (None or an int)
    recon_loss,        \* self.module.recon_loss: likelihood kind of the module
    iter_count,        \* self.iter_count
    epoch_history,     \* self.epoch_history: key -> list
    current_epoch,     \* self.current_epoch (owned by the trainer)
    opt_steps,         \* optimizer -> number of step() calls it has taken
    lr_decays,         \* optimizer -> number of times its lr was multiplied by gamma
    last_epoch,        \* scheduler of optimizer -> StepLR.last_epoch
    batches_done,      \* trainer: training steps taken in the current epoch
    outputs,           \* trainer: the results of this epoch's training steps
    epoch_ended,       \* trainer: training_epoch_end was called for this epoch
    step_log,          \* history: the branch taken by each completed training_step
    last_call,         \* the last handler call: what it did and how it ended
    val_outputs,       \* trainer: the results of this epoch's validation steps
    valid_epoch_ended, \* trainer: validation_epoch_end was called for this epoch
    \* ---- module state (SpecModule)
    module,            \* the CPAModule as its constructor left it
    tensors,           \* the batch: key -> per-cell values (mixup_data adds keys)
    inference_outputs, \* what the last inference call returned
    module_call,       \* the last module call: its arguments and how it ended
    px_mean            \* the tensor behind generative_outputs['px'] that the
                       \* metrics read (loc or mu), as their caller holds it

planVars == <<n_epochs_warmup, adversary_steps, step_size_lr, recon_loss,
              iter_count, epoch_history, current_epoch, opt_steps, lr_decays,
              last_epoch, batches_done, outputs, epoch_ended, step_log,
              last_call, val_outputs, valid_epoch_ended>>

validVars == <<val_outputs, valid_epoch_ended>>

moduleVars == <<module, tensors, inference_outputs, module_call, px_mean>>

vars == <<planVars, moduleVars>>

None == "None"    \* no exception raised / no value
Zero == "0.0"     \* the literal 0.0
NaN == "nan"      \* the mean of an empty list
Val == "val"      \* a tensor value

\* Optional[int]: << >> is Python's None, <<n>> is the int n
NoneInt == << >>
Int1(n) == <<n>>

Optimizers == {"opt", "opt_adv", "opt_dosers"}
LikelihoodKinds == {"gauss", "nb", "zinb"}
covars_to_ncovars == {"cell_type"}

\* keys of the history the constructor creates
MetricKeys == {"recon_loss", "adv_loss", "penalty_adv", "adv_drugs",
               "penalty_drugs", "reg_mean", "reg_var", "disent_basal_drugs",
               "disent_drugs"}
CovarKeys == {"adv_cell_type", "penalty_cell_type"}
HistoryKeys == {"mode", "epoch"} \cup MetricKeys \cup CovarKeys

\* ------------------------------------------------------------ training_step
zero_grad(o) == [f |-> "zero_grad", on |-> {o}]
manual_backward(terms) == [f |-> "manual_backward", on |-> terms]
step(o) == [f |-> "step", on |-> {o}]

is_warmup(epoch, warmup) == ~(epoch >= warmup)

\* mutant: the two turns exchanged
is_adversary_turn_swapped(iter, adv_steps) == iter % adv_steps = 0

\* mutant: the adversary takes every other turn, whatever adversary_steps is
is_adversary_turn_alternating(iter, adv_steps) == iter % 2 # 0

is_adversary_turn(iter, adv_steps) == iter % adv_steps # 0

adversarial_update_ops ==
    << zero_grad("opt_adv"),
       manual_backward({"adv_loss", "penalty_adv"}),
       step("opt_adv") >>

\* mutant: the model turn steps the adversary instead of the dosers
model_update_ops_slip ==
    << zero_grad("opt"),
       zero_grad("opt_dosers"),
       manual_backward({"reconstruction_loss", "adv_loss"}),
       step("opt"),
       step("opt_adv") >>

model_update_ops ==
    << zero_grad("opt"),
       zero_grad("opt_dosers"),
       manual_backward({"reconstruction_loss", "adv_loss"}),
       step("opt"),
       step("opt_dosers") >>

warmup_ops ==
    << zero_grad("opt"),
       zero_grad("opt_dosers"),
       manual_backward({"reconstruction_loss"}),
       step("opt"),
       step("opt_adv") >>

training_step_branch(epoch, warmup, iter, adv_steps) ==
    IF is_warmup(epoch, warmup) THEN "warmup"
    ELSE IF is_adversary_turn(iter, adv_steps) THEN "adversary"
    ELSE "model"

training_step_ops(branch) ==
    CASE branch = "warmup" -> warmup_ops
      [] branch = "adversary" -> adversarial_update_ops
      [] branch = "model" -> model_update_ops

\* the adversarial part of the result: tensor values after warmup, 0.0 before
adv_results(branch) ==
    [k \in {"adv_loss", "adv_drugs", "penalty_adv", "penalty_drugs"} \cup CovarKeys |->
        IF branch = "warmup" THEN Zero ELSE Val]

training_step_results(branch) ==
    [k \in MetricKeys \cup CovarKeys |->
        IF k \in {"reg_mean", "reg_var", "disent_basal_drugs", "disent_drugs"} THEN Zero
        ELSE IF k = "recon_loss" THEN Val
        ELSE adv_results(branch)[k]]

StepsOf(ops, o) == Cardinality({i \in 1..Len(ops) : ops[i] = step(o)})

\* mutant: warmup steps are not counted
next_iter_count_skips_warmup(iter, branch) ==
    IF branch = "warmup" THEN iter ELSE iter + 1

\* self.iter_count += 1, after the if/else over the three branches
next_iter_count(iter, branch) == iter + 1

training_step ==
    /\ ~epoch_ended
    /\ batches_done < MaxBatches
    /\ LET branch == training_step_branch(current_epoch, n_epochs_warmup,
                                          iter_count, adversary_steps)
           ops == training_step_ops(branch)
           results == training_step_results(branch)
       IN /\ opt_steps' = [o \in Optimizers |-> opt_steps[o] + StepsOf(ops, o)]
          /\ iter_count' = next_iter_count(iter_count, branch)
          /\ step_log' = Append(step_log, branch)
          /\ outputs' = Append(outputs, results)
          /\ last_call' = [op |-> "training_step", raised |-> None,
                           epoch |-> current_epoch, iter |-> iter_count,
                           ops |-> ops, results |-> results]
    /\ batches_done' = batches_done + 1
    /\ UNCHANGED <<n_epochs_warmup, adversary_steps, step_size_lr, recon_loss,
                   epoch_history, current_epoch, lr_decays, last_epoch,
                   epoch_ended, validVars, moduleVars>>

\* ------------------------------------------------------ training_epoch_end
\* np.mean over the epoch's outputs, on the abstract values
mean(vals) ==
    IF vals = << >> THEN NaN
    ELSE IF \A i \in 1..Len(vals) : vals[i] = Zero THEN Zero ELSE Val

\* mutant: the validation epoch end records no epoch index
append_history_no_valid_epoch(hist, outs, epoch, mode) ==
    [k \in HistoryKeys |->
        IF k = "epoch" THEN (IF mode = "valid" THEN hist[k] ELSE Append(hist[k], epoch))
        ELSE IF k = "mode" THEN Append(hist[k], mode)
        ELSE Append(hist[k], mean([i \in 1..Len(outs) |-> outs[i][k]]))]

append_history(hist, outs, epoch, mode) ==
    [k \in HistoryKeys |->
        IF k = "epoch" THEN Append(hist[k], epoch)
        ELSE IF k = "mode" THEN Append(hist[k], mode)
        ELSE Append(hist[k], mean([i \in 1..Len(outs) |-> outs[i][k]]))]

\* current_epoch > 1 and current_epoch % step_size_lr == 0, with Python's
\* short-circuit: the modulo is evaluated only when current_epoch > 1, and
\* int % None raises TypeError
lr_step_test(epoch, size) ==
    IF ~(epoch > 1) THEN [raised |-> None, value |-> FALSE]
    ELSE IF size = NoneInt THEN [raised |-> "TypeError", value |-> FALSE]
    ELSE [raised |-> None, value |-> epoch % size[1] = 0]

\* torch StepLR.step(): last_epoch += 1, and the learning rate is multiplied by
\* gamma when the new last_epoch is a positive multiple of step_size
StepLR_decays(last, size) == (last + 1) % size = 0

training_epoch_end ==
    /\ ~epoch_ended
    /\ batches_done >= 1
    /\ valid_epoch_ended    \* the trainer runs the validation loop of an epoch
                            \* before it ends the training epoch
    /\ epoch_history' = append_history(epoch_history, outputs, current_epoch, "train")
    /\ LET test == lr_step_test(current_epoch, step_size_lr)
       IN /\ IF test.raised = None /\ test.value
             THEN /\ last_epoch' = [o \in Optimizers |-> last_epoch[o] + 1]
                  /\ lr_decays' = [o \in Optimizers |->
                        IF StepLR_decays(last_epoch[o], step_size_lr[1])
                        THEN lr_decays[o] + 1 ELSE lr_decays[o]]
             ELSE UNCHANGED <<last_epoch, lr_decays>>
          /\ last_call' = [op |-> "training_epoch_end", raised |-> test.raised,
                           epoch |-> current_epoch,
                           sch_step |-> test.raised = None /\ test.value]
    /\ epoch_ended' = TRUE
    /\ UNCHANGED <<n_epochs_warmup, adversary_steps, step_size_lr, recon_loss,
                   iter_count, current_epoch, opt_steps, batches_done, outputs,
                   step_log, validVars, moduleVars>>

\* ----------------------------------------------------------- validation_step
\* str.lower() on the strings the model uses
lower(s) ==
    CASE s = "LFC" -> "lfc"
      [] s = "Direct" -> "direct"
      [] s = "DIRECT" -> "direct"
      [] s = "Gauss" -> "gauss"
      [] s = "GAUSS" -> "gauss"
      [] s = "NB" -> "nb"
      [] s = "Nb" -> "nb"
      [] s = "ZINB" -> "zinb"
      [] s = "Zinb" -> "zinb"
      [] s = "MSE" -> "mse"
      [] OTHER -> s

r2_default_mode == "lfc"

r2_metric(kind, mode) ==
    IF lower(mode) \notin {"direct"}
    THEN [raised |-> "AssertionError"]
    ELSE IF kind \in {"gauss", "nb", "zinb"}
    THEN [raised |-> None, r2_mean |-> Val, r2_var |-> Val]
    ELSE [raised |-> None, r2_mean |-> Zero, r2_var |-> Zero]

disentanglement == [raised |-> None, knn_basal |-> Val, knn_after |-> Val]

\* r2_mean + 1.0 - disent_basal_drugs + disent_drugs, kept as the signed terms
\* of the sum because the metric values are opaque
cpa_metric(r2_mean, disent_basal_drugs, disent_drugs) ==
    <<[sign |-> "+", term |-> r2_mean], [sign |-> "+", term |-> "1.0"],
      [sign |-> "-", term |-> disent_basal_drugs],
      [sign |-> "+", term |-> disent_drugs]>>

validation_step_results(r2, dis) ==
    [k \in MetricKeys \cup CovarKeys \cup {"cpa_metric"} |->
        CASE k = "reg_mean" -> r2.r2_mean
          [] k = "reg_var" -> r2.r2_var
          [] k = "disent_basal_drugs" -> dis.knn_basal
          [] k = "disent_drugs" -> dis.knn_after
          [] k = "recon_loss" -> Val
          [] k = "cpa_metric" -> cpa_metric(r2.r2_mean, dis.knn_basal, dis.knn_after)
          [] OTHER -> Zero]

validation_step_outcome(kind) ==
    LET r2 == r2_metric(kind, r2_default_mode)
        dis == disentanglement
    IN IF r2.raised # None
       THEN [op |-> "validation_step", raised |-> r2.raised, within |-> "r2_metric"]
       ELSE IF dis.raised # None
       THEN [op |-> "validation_step", raised |-> dis.raised, within |-> "disentanglement"]
       ELSE [op |-> "validation_step", raised |-> None,
             results |-> validation_step_results(r2, dis)]

\* mutant: a validation step that counts as an iteration
validation_step_counting ==
    /\ last_call' = validation_step_outcome(recon_loss)
    /\ iter_count' = iter_count + 1
    /\ UNCHANGED <<n_epochs_warmup, adversary_steps, step_size_lr, recon_loss,
                   epoch_history, current_epoch, opt_steps,
                   lr_decays, last_epoch, batches_done, outputs, epoch_ended,
                   step_log, validVars, moduleVars>>

validation_step ==
    /\ last_call' = validation_step_outcome(recon_loss)
    /\ val_outputs' = IF last_call'.raised = None
                      THEN Append(val_outputs, last_call'.results)
                      ELSE val_outputs
    /\ UNCHANGED <<n_epochs_warmup, adversary_steps, step_size_lr, recon_loss,
                   iter_count, epoch_history, current_epoch, opt_steps,
                   lr_decays, last_epoch, batches_done, outputs, epoch_ended,
                   step_log, valid_epoch_ended, moduleVars>>

\* ------------------------------------------------------ validation_epoch_end
validation_epoch_end ==
    /\ ~valid_epoch_ended
    /\ ~epoch_ended
    /\ batches_done >= 1
    /\ epoch_history' = append_history(epoch_history, val_outputs, current_epoch, "valid")
    /\ last_call' = [op |-> "validation_epoch_end", raised |-> None,
                     epoch |-> current_epoch,
                     logged |-> {"cpa_metric", "val_reg_mean", "val_disent_basal_drugs",
                                 "val_disent_drugs", "val_reg_var"}]
    /\ valid_epoch_ended' = TRUE
    /\ UNCHANGED <<n_epochs_warmup, adversary_steps, step_size_lr, recon_loss,
                   iter_count, current_epoch, opt_steps, lr_decays, last_epoch,
                   batches_done, outputs, epoch_ended, step_log, val_outputs,
                   moduleVars>>

\* ------------------------------------------------------------------ trainer
\* the trainer moves to the next epoch after the epoch end
next_epoch ==
    /\ epoch_ended
    /\ current_epoch < MaxEpoch
    /\ current_epoch' = current_epoch + 1
    /\ batches_done' = 0
    /\ outputs' = << >>
    /\ epoch_ended' = FALSE
    /\ val_outputs' = << >>
    /\ valid_epoch_ended' = FALSE
    /\ UNCHANGED <<n_epochs_warmup, adversary_steps, step_size_lr, recon_loss,
                   iter_count, epoch_history, opt_steps, lr_decays, last_epoch,
                   step_log, last_call, moduleVars>>

\* ============================================================== CPAModule
n_genes == 1
n_perts == 2
n_latent == 2
covars_encoder == [cell_type |-> 2, batch |-> 1]   \* covariate -> len(unique values)
covars_order == << "cell_type", "batch" >>          \* covars_encoder.items()

ReconLossArgs == {"gauss", "NB", "zinb", "mse", "MSE"}

\* the decoder components, by likelihood kind
decoder_components(rl) ==
    IF rl \in {"zinb", "nb"}
    THEN [raised |-> None, created |-> {"px_r", "library_encoder", "decoder"}]
    ELSE IF rl = "gauss"
    THEN [raised |-> None, created |-> {"decoder"}]
    ELSE [raised |-> "Exception", created |-> {}]

\* mutant: the constructor without its assertion on the likelihood kind
CPAModule_init_unchecked(arg_recon_loss) ==
    LET rl == lower(arg_recon_loss)
        dec == decoder_components(rl)
    IN [raised |-> dec.raised, arg_recon_loss |-> arg_recon_loss, recon_loss |-> rl,
        seeded |-> TRUE,
        created |-> IF dec.raised # None THEN {"encoder"}
                    ELSE {"encoder"} \cup dec.created
                            \cup {"pert_network", "covars_embeddings"}]

CPAModule_init(arg_recon_loss) ==
    LET rl == lower(arg_recon_loss)
        dec == decoder_components(rl)
    IN IF rl \notin {"gauss", "zinb", "nb"}
       THEN [raised |-> "AssertionError", arg_recon_loss |-> arg_recon_loss,
             recon_loss |-> rl, seeded |-> FALSE, created |-> {}]
       ELSE [raised |-> dec.raised, arg_recon_loss |-> arg_recon_loss,
             recon_loss |-> rl, seeded |-> TRUE,
             created |-> IF dec.raised # None THEN {"encoder"}
                         ELSE {"encoder"} \cup dec.created
                                 \cup {"pert_network", "covars_embeddings"}]

\* ---- vectors
VAdd(u, v) == [i \in 1..Len(u) |-> u[i] + v[i]]
VZero(n) == [i \in 1..n |-> 0]
RECURSIVE VSum(_)
VSum(u) == IF u = << >> THEN 0 ELSE u[1] + VSum(Tail(u))

\* lam/LambdaDen * a + (1 - lam/LambdaDen) * b
Blend(lam, a, b) == (lam * a + (LambdaDen - lam) * b) \div LambdaDen
Exact(lam, a, b) == (lam * a + (LambdaDen - lam) * b) % LambdaDen = 0
VBlend(lam, u, v) == [i \in 1..Len(u) |-> Blend(lam, u[i], v[i])]

\* ---- the layers the module calls: fixed, distinct-valued functions
\* self.encoder(x_): the basal state of a cell
encoder(rl, xrow) ==
    [i \in 1..n_latent |-> (IF rl \in {"nb", "zinb"} THEN 100 ELSE 0) + 10 * VSum(xrow) + i]
\* self.pert_network(perts, perts_doses): one latent vector per cell
pert_network(pert, dose) ==
    [i \in 1..n_latent |-> LambdaDen * (3 * pert + dose + i)]
\* self.covars_embeddings[covar](index)
covars_embeddings(covar, index) ==
    [i \in 1..n_latent |->
        LambdaDen * ((IF covar = "cell_type" THEN 20 ELSE 40) + 5 * index + i)]

\* ---- mixup_data
max0(alpha) == IF alpha > 0 THEN alpha ELSE 0

\* mutant: a disabled mixup gives weight 0 instead of 1
mixup_lambda_zero(alpha, beta_draw) ==
    IF max0(alpha) = 0 THEN 0 ELSE beta_draw

\* beta_draw: the value np.random.beta returns, in [0, 1]
mixup_lambda_of(alpha, beta_draw) ==
    IF max0(alpha) = 0 THEN LambdaDen ELSE beta_draw

Permute(col, index) == [c \in 1..Len(col) |-> col[index[c]]]

mixup_tensors(t, lam, index) ==
    [ X |-> [c \in 1..Len(t.X) |->
                [g \in 1..n_genes |-> Blend(lam, t.X[c][g], t.X[index[c]][g])]],
      X_true |-> t.X,
      X_mixup |-> Permute(t.X, index),
      perturbation_mixup |-> Permute(t.perturbation, index),
      perts_mixup |-> Permute(t.perts, index),
      perts_doses_mixup |-> Permute(t.perts_doses, index),
      cell_type_mixup |-> Permute(t.cell_type, index),
      batch_mixup |-> Permute(t.batch, index) ] @@ t

mixup_exact(t, lam, index) ==
    \A c \in 1..Len(t.X) : \A g \in 1..n_genes :
        Exact(lam, t.X[c][g], t.X[index[c]][g])

has_mixup(t) == "perts_mixup" \in DOMAIN t

Perms(n) == {q \in [1..n -> 1..n] : \A a, b \in 1..n : q[a] = q[b] => a = b}

\* every batch is mixed once, before it goes through inference
mixup_data ==
    /\ module.raised = None
    /\ ~has_mixup(tensors)
    /\ \E alpha \in {-1, 0, 1} : \E beta_draw \in 0..LambdaDen :
       \E index \in Perms(Len(tensors.X)) :
         LET lam == mixup_lambda_of(alpha, beta_draw)
         IN /\ mixup_exact(tensors, lam, index)
            /\ tensors' = mixup_tensors(tensors, lam, index)
            /\ module_call' = [op |-> "mixup_data", raised |-> None, alpha |-> alpha,
                               mixup_lambda |-> lam]
    /\ UNCHANGED <<module, inference_outputs, px_mean, planVars>>

\* ---- inference
covar_col(t, covar) == IF covar = "cell_type" THEN t.cell_type ELSE t.batch
covar_col_mixup(t, covar) ==
    IF covar = "cell_type" THEN t.cell_type_mixup ELSE t.batch_mixup

\* mutant: the mixup assignment gets the weight of the true one
z_pert_of_swapped(lam, pert_true, dose_true, pert_mixup, dose_mixup) ==
    IF lam < LambdaDen
    THEN VBlend(lam, pert_network(pert_mixup, dose_mixup),
                     pert_network(pert_true, dose_true))
    ELSE pert_network(pert_true, dose_true)

z_pert_of(lam, pert_true, dose_true, pert_mixup, dose_mixup) ==
    LET z_pert_true == pert_network(pert_true, dose_true)
    IN IF lam < LambdaDen
       THEN VBlend(lam, z_pert_true, pert_network(pert_mixup, dose_mixup))
       ELSE z_pert_true

z_cov_of(lam, covar, index_true, index_mixup) ==
    LET z_cov == covars_embeddings(covar, index_true)
    IN IF covars_encoder[covar] > 1
       THEN VBlend(lam, z_cov, covars_embeddings(covar, index_mixup))
       ELSE z_cov

RECURSIVE z_covs_of(_, _, _, _)
z_covs_of(lam, t, c, covars) ==
    IF covars = << >> THEN VZero(n_latent)
    ELSE VAdd(z_covs_of(lam, t, c, SubSeq(covars, 1, Len(covars) - 1)),
              z_cov_of(lam, covars[Len(covars)],
                       covar_col(t, covars[Len(covars)])[c],
                       covar_col_mixup(t, covars[Len(covars)])[c]))

inference_of(m, t, lam) ==
    LET cells == 1..Len(t.X)
        z_basal == [c \in cells |-> encoder(m.recon_loss, t.X[c])]
        z_pert == [c \in cells |->
                     z_pert_of(lam, t.perts[c], t.perts_doses[c],
                               t.perts_mixup[c], t.perts_doses_mixup[c])]
        z_covs == [c \in cells |-> z_covs_of(lam, t, c, covars_order)]
    IN [ z |-> [c \in cells |-> VAdd(VAdd(z_basal[c], z_pert[c]), z_covs[c])],
         z_basal |-> z_basal,
         z_covs |-> z_covs,
         z_pert |-> [c \in cells |-> VSum(z_pert[c])],    \* z_pert.sum(dim=1)
         library |-> IF m.recon_loss \in {"nb", "zinb"} THEN Val ELSE None,
         mixup_lambda |-> lam ]

NoOutputs == [mixup_lambda |-> -1]

inference ==
    /\ module.raised = None
    /\ IF has_mixup(tensors)
       THEN \E lam \in 0..LambdaDen :
              /\ inference_outputs' = inference_of(module, tensors, lam)
              /\ module_call' = [op |-> "inference", raised |-> None,
                                 mixup_lambda |-> lam]
       ELSE /\ module_call' = [op |-> "inference", raised |-> "KeyError"]
            /\ UNCHANGED inference_outputs
    /\ UNCHANGED <<module, tensors, px_mean, planVars>>

\* ---- generative
generative_of(rl) ==
    IF rl = "nb" THEN [px |-> "NegativeBinomial", pz |-> "Normal", pl |-> None]
    ELSE IF rl = "zinb"
    THEN [px |-> "ZeroInflatedNegativeBinomial", pz |-> "Normal", pl |-> None]
    ELSE [px |-> "Normal", pz |-> "Normal", pl |-> None]

generative ==
    /\ module.raised = None
    /\ inference_outputs # NoOutputs
    /\ module_call' = [op |-> "generative", raised |-> None,
                       outputs |-> generative_of(module.recon_loss)]
    /\ UNCHANGED <<module, tensors, inference_outputs, px_mean, planVars>>

\* ---- the metrics
MaxNeighbors == 30

min(a, b) == IF a <= b THEN a ELSE b

\* n_neighbors=min(labels.shape[0] - 1, 30)
n_neighbors(n) == min(n - 1, MaxNeighbors)

knn_purity_call(embedding, labels, n) ==
    [embedding |-> embedding, labels |-> labels, n_neighbors |-> n_neighbors(n)]

RECURSIVE covar_knn_calls(_, _)
covar_knn_calls(covars, t) ==
    IF covars = << >> THEN << >>
    ELSE LET covar == Head(covars)
         IN (IF covars_encoder[covar] > 1
             THEN <<knn_purity_call("z_basal", covar, Len(t[covar])),
                    knn_purity_call("z", covar, Len(t[covar]))>>
             ELSE << >>) \o covar_knn_calls(Tail(covars), t)

\* the calls of knn_purity that disentanglement makes, in order
knn_calls(t) ==
    <<knn_purity_call("z_basal", "perturbation", Len(t.perturbation)),
      knn_purity_call("z", "perturbation", Len(t.perturbation))>>
        \o covar_knn_calls(covars_order, t)

disentanglement_call ==
    /\ module.raised = None
    /\ module_call' = [op |-> "disentanglement", raised |-> disentanglement.raised,
                       n |-> Len(tensors.perturbation),
                       knn_calls |-> knn_calls(tensors)]
    /\ UNCHANGED <<module, tensors, inference_outputs, px_mean, planVars>>

has_deg_mask(t) == "deg_mask_r2" \in DOMAIN t

\* tensor *= deg_mask, element by element
Masked(matrix, mask) ==
    [c \in 1..Len(matrix) |-> [g \in 1..n_genes |-> matrix[c][g] * mask[c][g]]]

\* the tensors r2_metric was handed, as they are when it ends: x is
\* tensors[X], and in the gauss branch x_pred_mean is px.loc, so the three
\* `*= deg_mask` write through to both; the nb / zinb branch masks
\* log(1 + x) and log(1 + px.mu), which are new tensors
r2_metric_inputs_after(kind, mode, t, p) ==
    IF r2_metric(kind, mode).raised # None THEN [tensors |-> t, px_mean |-> p]
    ELSE IF kind = "gauss" /\ has_deg_mask(t)
    THEN [tensors |-> [t EXCEPT !.X = Masked(t.X, t.deg_mask_r2)],
          px_mean |-> Masked(p, t.deg_mask_r2)]
    ELSE [tensors |-> t, px_mean |-> p]

R2Modes == {"lfc", "direct", "DIRECT"}

r2_metric_call ==
    /\ module.raised = None
    /\ \E mode \in R2Modes :
         LET after == r2_metric_inputs_after(module.recon_loss, mode, tensors, px_mean)
         IN /\ module_call' = [op |-> "r2_metric", mode |-> mode,
                               outcome |-> r2_metric(module.recon_loss, mode)]
            /\ tensors' = after.tensors
            /\ px_mean' = after.px_mean
    /\ UNCHANGED <<module, inference_outputs, planVars>>

\* ---- the batches: every cell has an expression row, one treatment (a
\* perturbation id with its dose) and one index per covariate.  The cells are
\* drawn from five profiles: in the first four every two of the three fields
\* take all four combinations of their values, and the fifth differs from the
\* first in every field.
CellInputs ==
    { [x |-> 0,         pert |-> 1, dose |-> 1, cell_type |-> 0],
      [x |-> 0,         pert |-> 2, dose |-> 2, cell_type |-> 1],
      [x |-> LambdaDen, pert |-> 1, dose |-> 1, cell_type |-> 1],
      [x |-> LambdaDen, pert |-> 2, dose |-> 2, cell_type |-> 0],
      [x |-> LambdaDen, pert |-> 2, dose |-> 2, cell_type |-> 1] }

batch_of(cells) ==
    [ X |-> [c \in 1..Len(cells) |-> [g \in 1..n_genes |-> cells[c].x]],
      perturbation |-> [c \in 1..Len(cells) |-> cells[c].pert],
      perts |-> [c \in 1..Len(cells) |-> cells[c].pert],
      perts_doses |-> [c \in 1..Len(cells) |-> cells[c].dose],
      cell_type |-> [c \in 1..Len(cells) |-> cells[c].cell_type],
      batch |-> [c \in 1..Len(cells) |-> 0] ]

Batches == UNION { {batch_of(cells) : cells \in [1..n -> CellInputs]} : n \in 1..MaxCells }

\* ------------------------------------------------------------------ driver
PlanInit ==
    /\ n_epochs_warmup \in 0..MaxWarmup
    /\ adversary_steps \in 1..MaxAdversarySteps
    /\ step_size_lr \in {NoneInt} \cup {Int1(n) : n \in 1..MaxStepSize}
    /\ recon_loss \in LikelihoodKinds
    /\ iter_count = 0
    /\ epoch_history = [k \in HistoryKeys |-> << >>]
    /\ current_epoch = 0
    /\ opt_steps = [o \in Optimizers |-> 0]
    /\ lr_decays = [o \in Optimizers |-> 0]
    /\ last_epoch = [o \in Optimizers |-> 0]
    /\ batches_done = 0
    /\ outputs = << >>
    /\ epoch_ended = FALSE
    /\ step_log = << >>
    /\ last_call = [op |-> "__init__", raised |-> None]
    /\ val_outputs = << >>
    /\ valid_epoch_ended = FALSE

\* the plan with a fixed module and no batch in the module's hands
Init ==
    /\ PlanInit
    /\ module = CPAModule_init("nb")
    /\ tensors = << >>
    /\ inference_outputs = NoOutputs
    /\ px_mean = << >>
    /\ module_call = [op |-> "__init__", raised |-> None]

Next ==
    \/ training_step
    \/ training_epoch_end
    \/ validation_step
    \/ validation_epoch_end
    \/ next_epoch

Spec == Init /\ [][Next]_vars

\* the module on its own: a constructor call, then calls on one batch
InitModule ==
    /\ n_epochs_warmup = 0
    /\ adversary_steps = 1
    /\ step_size_lr = NoneInt
    /\ iter_count = 0
    /\ epoch_history = [k \in HistoryKeys |-> << >>]
    /\ current_epoch = 0
    /\ opt_steps = [o \in Optimizers |-> 0]
    /\ lr_decays = [o \in Optimizers |-> 0]
    /\ last_epoch = [o \in Optimizers |-> 0]
    /\ batches_done = 0
    /\ outputs = << >>
    /\ epoch_ended = FALSE
    /\ step_log = << >>
    /\ last_call = [op |-> "__init__", raised |-> None]
    /\ val_outputs = << >>
    /\ valid_epoch_ended = FALSE
    /\ \E arg \in ReconLossArgs :
         /\ module = CPAModule_init(arg)
         /\ recon_loss = module.recon_loss
         /\ module_call = [op |-> "__init__", raised |-> module.raised]
    /\ IF module.raised = None THEN tensors \in Batches ELSE tensors = << >>
    /\ inference_outputs = NoOutputs
    /\ px_mean = << >>

\* ---- the metrics are called on a batch after a forward pass: the batch as
\* mixup_data left it, with or without a DE gene mask, the inference outputs,
\* and the predicted mean of the generative outputs
PlanIdle ==
    /\ n_epochs_warmup = 0
    /\ adversary_steps = 1
    /\ step_size_lr = NoneInt
    /\ iter_count = 0
    /\ epoch_history = [k \in HistoryKeys |-> << >>]
    /\ current_epoch = 0
    /\ opt_steps = [o \in Optimizers |-> 0]
    /\ lr_decays = [o \in Optimizers |-> 0]
    /\ last_epoch = [o \in Optimizers |-> 0]
    /\ batches_done = 0
    /\ outputs = << >>
    /\ epoch_ended = FALSE
    /\ step_log = << >>
    /\ last_call = [op |-> "__init__", raised |-> None]
    /\ val_outputs = << >>
    /\ valid_epoch_ended = FALSE

Identity(n) == [c \in 1..n |-> c]

DegMasks(n) == [1..n -> [1..n_genes -> {0, 1}]]

PxMeans(n) == {[c \in 1..n |-> [g \in 1..n_genes |-> v]] : v \in {0, 1}}

InitMetrics ==
    /\ PlanIdle
    /\ \E kind \in LikelihoodKinds :
         /\ module = CPAModule_init(kind)
         /\ recon_loss = module.recon_loss
    /\ module_call = [op |-> "forward", raised |-> None]
    /\ \E b \in Batches :
         LET n == Len(b.X)
             t == mixup_tensors(b, LambdaDen, Identity(n))
         IN /\ \/ tensors = t
               \/ \E mask \in DegMasks(n) : tensors = ("deg_mask_r2" :> mask) @@ t
            /\ inference_outputs = inference_of(module, t, LambdaDen)
            /\ px_mean \in PxMeans(n)

NextMetrics ==
    \/ r2_metric_call
    \/ disentanglement_call

SpecMetrics == InitMetrics /\ [][NextMetrics]_vars

NextModule ==
    \/ mixup_data
    \/ inference
    \/ generative

SpecModule == InitModule /\ [][NextModule]_vars

\* ================================================================== claims
Stepped(ops) == {o \in Optimizers : StepsOf(ops, o) > 0}
ZeroedBeforeStep(ops, o) ==
    \A i \in 1..Len(ops) :
        ops[i] = step(o) => \E j \in 1..(i - 1) : ops[j] = zero_grad(o)
Backwards(ops) == {ops[i].on : i \in {j \in 1..Len(ops) : ops[j].f = "manual_backward"}}

\* C1 (as stated): with adversary_steps = 3 and no warmup, the first 9 training
\* steps are adversary, model, model, adversary, model, model, adversary, model,
\* model (3 adversary-only updates, 6 autoencoder+doser updates).
C1_NineStepsAsStated ==
    (adversary_steps = 3 /\ n_epochs_warmup = 0 /\ Len(step_log) >= 9) =>
        SubSeq(step_log, 1, 9) =
            << "adversary", "model", "model", "adversary", "model", "model",
               "adversary", "model", "model" >>

\* C1 (amended): with adversary_steps = 3 and no warmup, the first 9 training
\* steps are model, adversary, adversary, model, adversary, adversary, model,
\* adversary, adversary: 3 autoencoder+doser updates and 6 adversary-only updates.
C1_NineStepsAmended ==
    (adversary_steps = 3 /\ n_epochs_warmup = 0 /\ Len(step_log) >= 9) =>
        /\ SubSeq(step_log, 1, 9) =
            << "model", "adversary", "adversary", "model", "adversary",
               "adversary", "model", "adversary", "adversary" >>
        /\ Cardinality({i \in 1..9 : step_log[i] = "adversary"}) = 6
        /\ Cardinality({i \in 1..9 : step_log[i] = "model"}) = 3

C1_Witness ==
    adversary_steps = 3 /\ n_epochs_warmup = 0 /\ Len(step_log) = 9 /\ iter_count = 9

\* C2: a training_step taken at current_epoch >= n_epochs_warmup updates exactly
\* one side: if iter_count mod adversary_steps # 0 only the adversary optimizer
\* steps, otherwise the autoencoder and doser optimizers step and the adversary
\* does not; every optimizer that steps steps once, after its own zero_grad in
\* the same call.
C2_ExactlyOneSide ==
    [][ (last_call'.op = "training_step" /\ iter_count' = iter_count + 1
            /\ current_epoch >= n_epochs_warmup) =>
        LET ops == last_call'.ops
            side == IF iter_count % adversary_steps # 0
                    THEN {"opt_adv"} ELSE {"opt", "opt_dosers"}
        IN /\ Stepped(ops) = side
           /\ \A o \in Optimizers :
                opt_steps'[o] = opt_steps[o] + (IF o \in side THEN 1 ELSE 0)
           /\ \A o \in side : ZeroedBeforeStep(ops, o) ]_vars

C2_Witness ==
    /\ last_call.op = "training_step"
    /\ last_call.epoch >= n_epochs_warmup
    /\ last_call.iter % adversary_steps = 0
    /\ \E i \in 1..Len(step_log) : step_log[i] = "adversary"
    /\ opt_steps["opt_dosers"] >= 2

\* C3: a training_step taken at current_epoch < n_epochs_warmup back-propagates
\* only the reconstruction objective and steps all three optimizers.
C3_WarmupStepsAllThree ==
    (last_call.op = "training_step" /\ last_call.epoch < n_epochs_warmup) =>
        /\ Backwards(last_call.ops) = {{"reconstruction_loss"}}
        /\ Stepped(last_call.ops) = Optimizers

\* C4: validation_step ends by returning the metrics mapping, for every
\* likelihood kind, and never ends in an error raised by r2_metric or
\* disentanglement.
C4_ValidationReturnsMetrics ==
    last_call.op = "validation_step" =>
        /\ last_call.raised = None
        /\ {"recon_loss", "reg_mean", "reg_var", "disent_basal_drugs",
            "disent_drugs", "cpa_metric"} \subseteq DOMAIN last_call.results

\* C6: at the end of every training epoch e with e > 1 and e mod step_size_lr = 0
\* all three learning rates are multiplied by the decay factor, and at no other
\* epoch end do they change.
C6_DecayEveryStepSizeEpochs ==
    [][ (last_call'.op = "training_epoch_end" /\ epoch_ended' /\ ~epoch_ended
            /\ step_size_lr # NoneInt) =>
        IF current_epoch > 1 /\ current_epoch % step_size_lr[1] = 0
        THEN \A o \in Optimizers : lr_decays'[o] = lr_decays[o] + 1
        ELSE lr_decays' = lr_decays ]_vars

\* C7: a plan without an LR-decay period never gets as far as an epoch end that
\* only then uses the missing period to decide whether to step the schedulers.
C7_MissingPeriodNeverUsedLate ==
    step_size_lr = NoneInt =>
        ~(last_call.op = "training_epoch_end" /\ last_call.raised = "TypeError")


\* ---- claims about the module (SpecModule)
Cells == IF tensors = << >> THEN {} ELSE 1..Len(tensors.X)
TrueTreatment(c) == pert_network(tensors.perts[c], tensors.perts_doses[c])
MixupTreatment(c) == pert_network(tensors.perts_mixup[c], tensors.perts_doses_mixup[c])
TrueCovariate(k, c) == covars_embeddings(k, covar_col(tensors, k)[c])
MixupCovariate(k, c) == covars_embeddings(k, covar_col_mixup(tensors, k)[c])

\* C5: for every cell of every inference call, the returned z is the
\* elementwise sum of the returned z_basal, z_pert and z_covs (the returned
\* z_pert holds one number per cell, which is added to every element).
C5_LatentIsSumOfReturned ==
    inference_outputs # NoOutputs =>
        \A c \in Cells : \A d \in 1..n_latent :
            inference_outputs.z[c][d] =
                inference_outputs.z_basal[c][d] + inference_outputs.z_pert[c]
                    + inference_outputs.z_covs[c][d]

\* C8: a constructor call with a likelihood kind that is not gauss, nb or zinb
\* after lower-casing raises before the seeds are set and before any encoder,
\* decoder or embedding is created, and no inference or generative call is ever
\* made on such a module.
C8_InvalidKindFailsAtConstruction ==
    module.arg_recon_loss \in {"mse", "MSE"} =>
        /\ module.raised # None
        /\ ~module.seeded
        /\ module.created = {}
        /\ module_call.op = "__init__"
        /\ inference_outputs = NoOutputs

C8_Witness ==
    module.arg_recon_loss = "MSE" /\ module.raised = "AssertionError"

\* C9: mixup_data with alpha <= 0 gives lambda = 1.0, and with lambda = 1.0 the
\* mixed expression equals the original expression for every permutation;
\* inference with mixup_lambda = 1.0 gives the true-assignment perturbation
\* latent and the true-index embedding of every covariate.
C9_MixupIdentityStep ==
    (module_call'.op = "mixup_data" /\ ~has_mixup(tensors) /\ has_mixup(tensors')) =>
        /\ module_call'.alpha <= 0 => module_call'.mixup_lambda = LambdaDen
        /\ module_call'.mixup_lambda = LambdaDen =>
              /\ tensors'.X = tensors.X
              /\ tensors'.X_true = tensors.X

C9_InferenceIdentity ==
    (inference_outputs # NoOutputs /\ inference_outputs.mixup_lambda = LambdaDen) =>
        \A c \in Cells :
            LET covs == VAdd(TrueCovariate("cell_type", c), TrueCovariate("batch", c))
            IN /\ inference_outputs.z_covs[c] = covs
               /\ inference_outputs.z_pert[c] = VSum(TrueTreatment(c))
               /\ inference_outputs.z[c] =
                    VAdd(VAdd(inference_outputs.z_basal[c], TrueTreatment(c)), covs)

C9_MixupIdentity == [][C9_MixupIdentityStep]_vars /\ []C9_InferenceIdentity

C9_Witness ==
    /\ inference_outputs # NoOutputs
    /\ inference_outputs.mixup_lambda = LambdaDen
    /\ tensors.X = tensors.X_true
    /\ \E c \in Cells :
        /\ tensors.X_mixup[c] # tensors.X_true[c]
        /\ tensors.perts_mixup[c] # tensors.perts[c]
        /\ tensors.cell_type_mixup[c] # tensors.cell_type[c]

\* C10: for any lambda in [0, 1] inference blends with one lambda: the
\* perturbation latent is lambda * f(true) + (1 - lambda) * f(mixup), a covariate
\* with more than one category contributes lambda * E(true) + (1 - lambda) *
\* E(mixup), and a covariate with one category contributes E(true).
ExpectedCovariate(lam, k, c) ==
    IF covars_encoder[k] > 1
    THEN [d \in 1..n_latent |->
            (lam * TrueCovariate(k, c)[d]
                + (LambdaDen - lam) * MixupCovariate(k, c)[d]) \div LambdaDen]
    ELSE TrueCovariate(k, c)

C10_BlendWithOneLambda ==
    inference_outputs # NoOutputs =>
        \A c \in Cells :
            LET lam == inference_outputs.mixup_lambda
                pert == [d \in 1..n_latent |->
                           (lam * TrueTreatment(c)[d]
                               + (LambdaDen - lam) * MixupTreatment(c)[d]) \div LambdaDen]
                covs == VAdd(ExpectedCovariate(lam, "cell_type", c),
                             ExpectedCovariate(lam, "batch", c))
            IN /\ lam \in 0..LambdaDen
               /\ inference_outputs.z_covs[c] = covs
               /\ inference_outputs.z_pert[c] = VSum(pert)
               /\ inference_outputs.z[c] =
                    VAdd(VAdd(inference_outputs.z_basal[c], pert), covs)

C10_Witness ==
    /\ inference_outputs # NoOutputs
    /\ inference_outputs.mixup_lambda \in 1..(LambdaDen - 1)
    /\ \E c \in Cells :
        /\ tensors.perts_mixup[c] # tensors.perts[c]
        /\ tensors.cell_type_mixup[c] # tensors.cell_type[c]

\* ---------------------------------------------------------------------------
\* The metrics

\* C14: for a batch of n >= 1 cells every k-NN purity call of disentanglement
\* uses k = min(30, n - 1) neighbours, k never exceeds n - 1, and k-NN purity
\* is never called with 0 neighbours: for a batch of one cell the metric is
\* skipped.
C14_NeighboursNeverZero ==
    module_call.op = "disentanglement" =>
        /\ \A i \in 1..Len(module_call.knn_calls) :
               LET k == module_call.knn_calls[i].n_neighbors
               IN /\ k = min(MaxNeighbors, module_call.n - 1)
                  /\ k <= module_call.n - 1
                  /\ k >= 1
        /\ module_call.n = 1 => module_call.knn_calls = << >>

\* C17: r2_metric leaves its inputs as they were: the expression field of the
\* batch and the predicted mean of the likelihood are the same after a call as
\* before it, for every likelihood kind, with or without a DE gene mask.
C17_R2LeavesInputs ==
    [][ module_call'.op = "r2_metric" =>
            /\ tensors'.X = tensors.X
            /\ px_mean' = px_mean ]_vars

\* ---------------------------------------------------------------------------
\* The training plan: validation, history and the iteration counter

\* C11: a validation_step updates nothing: it steps none of the three
\* optimizers or schedulers and leaves iter_count and epoch_history unchanged,
\* at every epoch and in every interleaving with training steps.
C11_ValidationUpdatesNothing ==
    [][ (last_call'.op = "validation_step"
            /\ ~(epoch_ended' # epoch_ended)
            /\ ~(valid_epoch_ended' # valid_epoch_ended)
            /\ batches_done' = batches_done)
        => UNCHANGED <<opt_steps, lr_decays, last_epoch, iter_count,
                       epoch_history>> ]_vars

\* a validation step made after training steps, past the first epoch, with
\* history already recorded
C11_Witness ==
    /\ last_call.op = "validation_step"
    /\ iter_count > 1
    /\ current_epoch >= 1
    /\ batches_done >= 1
    /\ Len(epoch_history["epoch"]) >= 1

HistoryLen(h) == Len(h["epoch"])

AppendsOne(mode) ==
    \A k \in HistoryKeys :
        /\ Len(epoch_history'[k]) = Len(epoch_history[k]) + 1
        /\ SubSeq(epoch_history'[k], 1, Len(epoch_history[k])) = epoch_history[k]
        /\ epoch_history'["mode"][Len(epoch_history'["mode"])] = mode
        /\ epoch_history'["epoch"][Len(epoch_history'["epoch"])] = current_epoch

C12_EpochEndAppendsOne ==
    /\ (epoch_ended' /\ ~epoch_ended) => AppendsOne("train")
    /\ (valid_epoch_ended' /\ ~valid_epoch_ended) => AppendsOne("valid")
    /\ (epoch_history' # epoch_history) =>
           \/ (epoch_ended' /\ ~epoch_ended)
           \/ (valid_epoch_ended' /\ ~valid_epoch_ended)

C12_SameLengthIncreasing ==
    /\ \A k \in HistoryKeys : Len(epoch_history[k]) = HistoryLen(epoch_history)
    /\ \A i, j \in 1..HistoryLen(epoch_history) :
           (i < j /\ epoch_history["mode"][i] = epoch_history["mode"][j])
               => epoch_history["epoch"][i] < epoch_history["epoch"][j]

\* C12: the epoch history is append-only: every training_epoch_end and every
\* validation_epoch_end appends exactly one value to every list of the history
\* and changes no earlier entry, nothing else changes the history, all lists
\* have the same length at all times, and with one call of each epoch end per
\* epoch the epoch indices recorded for one mode are strictly increasing.
C12_HistoryAppendOnly ==
    [][C12_EpochEndAppendsOne]_vars /\ []C12_SameLengthIncreasing

\* both epoch ends have appended, over more than one epoch
C12_Witness ==
    /\ HistoryLen(epoch_history) >= 4
    /\ \E i, j \in 1..HistoryLen(epoch_history) :
           /\ i < j
           /\ epoch_history["mode"][i] = "valid"
           /\ epoch_history["mode"][j] = "valid"
    /\ \E i, j \in 1..HistoryLen(epoch_history) :
           /\ i < j
           /\ epoch_history["mode"][i] = "train"
           /\ epoch_history["mode"][j] = "train"

\* C13: every validation_step returns a composite metric equal to
\* r2_mean + 1 - disent_basal_drugs + disent_drugs of the same result.
C13_CompositeMetricReturned ==
    last_call.op = "validation_step" =>
        /\ last_call.raised = None
        /\ last_call.results["cpa_metric"] =
               cpa_metric(last_call.results["reg_mean"],
                          last_call.results["disent_basal_drugs"],
                          last_call.results["disent_drugs"])

PostWarmup(i) == step_log[i] # "warmup"

CountIn(lo, hi, branch) ==
    Cardinality({i \in lo..hi : step_log[i] = branch})

\* C15: every window of adversary_steps consecutive post-warmup training steps
\* holds exactly one autoencoder-and-doser update and adversary_steps - 1
\* adversary-only updates; with adversary_steps = 1 there is never an
\* adversary-only update.
C15_OneModelUpdatePerWindow ==
    /\ \A lo \in 1..Len(step_log) :
           LET hi == lo + adversary_steps - 1
           IN (hi <= Len(step_log) /\ \A i \in lo..hi : PostWarmup(i)) =>
                  /\ CountIn(lo, hi, "model") = 1
                  /\ CountIn(lo, hi, "adversary") = adversary_steps - 1
    /\ adversary_steps = 1 =>
           \A i \in 1..Len(step_log) : step_log[i] # "adversary"

\* two full windows of three post-warmup steps, after a warmup
C15_Witness ==
    /\ adversary_steps = 3
    /\ Len(step_log) >= 7
    /\ step_log[1] = "warmup"
    /\ \A i \in Len(step_log) - 5..Len(step_log) : PostWarmup(i)

C16_CountsEveryStep ==
    /\ iter_count = Len(step_log)
    /\ \A i \in 1..Len(step_log) :
           PostWarmup(i) =>
               step_log[i] = IF (i - 1) % adversary_steps # 0
                             THEN "adversary" ELSE "model"

C16_GrowsByOne ==
    /\ (last_call'.op = "training_step" /\ batches_done' = batches_done + 1)
           => iter_count' = iter_count + 1
    /\ iter_count' >= iter_count
    /\ current_epoch' # current_epoch => iter_count' = iter_count

\* C16: iter_count starts at 0 and always equals the number of completed
\* training_step calls: each call adds exactly 1 in each of the three branches,
\* nothing resets it at the end of warmup or at an epoch boundary, so the turn
\* of a post-warmup step is fixed by the count of all earlier steps, warmup
\* steps included.
C16_IterCountIsStepCount ==
    (iter_count = 0 /\ step_log = << >>)
        /\ [][C16_GrowsByOne]_vars /\ []C16_CountsEveryStep

\* the first post-warmup step is an adversary turn because of the warmup steps
\* counted before it, in a later epoch
C16_Witness ==
    \E i \in 1..Len(step_log) - 1 :
        /\ step_log[i] = "warmup"
        /\ step_log[i + 1] = "adversary"
        /\ current_epoch >= 1
        /\ iter_count = Len(step_log)

====
